---- MODULE Spec2Model ----
(***************************************************************************)
(* Model of src/tasks.py: four demonstration snippets executed top to      *)
(* bottom as one Python module.                                            *)
(*   Task 1  (lines 7-25)    synchronous, in-order signal dispatch         *)
(*   Task 2  (lines 56-81)   receivers run in the caller's thread          *)
(*   Task 3  (lines 116-150) post_save receivers inside transaction.atomic *)
(*   Rectangle (lines 185-199) a class iterated through a generator        *)
(* The framework primitives the file calls (Signal, receiver, send, save,  *)
(* objects.get, transaction.atomic) are modelled at the call sites, with   *)
(* the behaviour the file's own docstrings and expected outputs state.     *)
(* One action is one executed statement; the call stack of a send is the   *)
(* variable frames.  Task 3 is run in a configured project whose           *)
(* BankAccount table exists; its rows are an input of the run.             *)
(* Definitions marked "faulty variant" are deliberately wrong versions of  *)
(* the definition that follows them, used to show that a property depends  *)
(* on it.                                                                  *)
(***************************************************************************)
EXTENDS Integers, Sequences, FiniteSets, TLC

VARIABLES
    pc,          \* label of the next module-level (or main()) statement
    isMain,      \* __name__ == "__main__"
    cur,         \* identifier of the thread executing the current statement
    now,         \* seconds slept so far (time.sleep)
    out,         \* console: the sequence of printed lines
    my_signal,   \* the Signal object bound to the global name my_signal
    post_save,   \* the Signal object bound to the imported name post_save
    nsignals,    \* number of Signal() objects constructed so far
    receivers,   \* Signal object -> its connected receivers, in connection order
    frames,      \* call stack of Signal.send: <<>> or one frame
    rpc,         \* position inside the running receiver ("none" outside one)
    committed,   \* BankAccount table as committed in storage
    working,     \* BankAccount table as seen inside the open transaction
    inAtomic,    \* a transaction.atomic() block is open
    atEntry,     \* the committed table when the atomic block was entered
    alice,       \* the global name alice (a BankAccount instance)
    bob,         \* the global name bob
    exc,         \* the exception in flight, "none" when there is none
    rect,        \* the global name rect
    gen,         \* position of the generator made by Rectangle.__iter__
    dimension    \* the loop variable of the for statement

vars == <<pc, isMain, cur, now, out, my_signal, post_save, nsignals, receivers, frames, rpc,
          committed, working, inAtomic, atEntry, alice, bob, exc, rect, gen,
          dimension>>

dbVars == <<committed, working, inAtomic, atEntry, alice, bob, exc>>
rectVars == <<rect, gen, dimension>>

---------------------------------------------------------------------------
(* Bounds of the model *)

NThreads == 2
MaxRows == 2
MaxSpread == 1
MaxDim == 1

(* Program constants *)

Amount == 50
DefaultBalance == 100
SlowSleep == 3
WorkSleep == 2

Threads == 1..NThreads
Names == {"Alice", "Bob"}
Balances == (0..MaxSpread) \cup {DefaultBalance}
Dims == (0..MaxDim) \cup {10, 20}
PKs == 1..MaxRows

AnySender == "None"
BankAccount == "BankAccount"

---------------------------------------------------------------------------
(* Console *)

Event(text, name, val, item) ==
    [text |-> text, name |-> name, val |-> val, item |-> item, by |-> cur]

Line(text) == Event(text, "", 0, {})

print(e) == out' = Append(out, e)

---------------------------------------------------------------------------
(* django.dispatch.Signal *)

\* faulty variant: every Signal() is the same object
NewSignalShared(n) == 1

\* Signal(): the identity of the object constructed after n others
NewSignal(n) == n + 1

\* Signal(): a new object with no receivers (0 stands for an unbound name)
Registry(sig) ==
    IF sig \in DOMAIN receivers THEN receivers ELSE receivers @@ (sig :> <<>>)

Connect(sig, fn, sender) ==
    [receivers EXCEPT ![sig] = Append(@, [fn |-> fn, sender |-> sender])]

\* faulty variant: receivers connected with a sender are never selected
MatchesUnfilteredOnly(r, sender) == r.sender = AnySender

\* a receiver connected without a sender gets every send, one connected with
\* sender=S only the sends whose sender is S
Matches(r, sender) == r.sender = AnySender \/ r.sender = sender

RECURSIVE Reverse(_)
Reverse(s) == IF s = <<>> THEN <<>> ELSE Append(Reverse(Tail(s)), Head(s))

\* faulty variant: the receivers last connected first
LiveReceiversReversed(sig, sender) ==
    Reverse(SelectSeq(receivers[sig], LAMBDA r : r.sender = AnySender \/ r.sender = sender))

\* the receivers send calls, in the order they were connected
LiveReceivers(sig, sender) ==
    SelectSeq(receivers[sig], LAMBDA r : Matches(r, sender))

\* faulty variant: receivers run on a thread other than the caller's
ReceiverThreadSpawned(caller) == CHOOSE t \in Threads : t # caller

\* send calls a receiver as a plain function call: same thread as the caller
ReceiverThread(caller) == caller

NoInstance == [pk |-> 0, name |-> "", balance |-> 0]

\* faulty variant: send returns without calling any receiver
SendDeferred(sig, sender, instance, ret) ==
    /\ frames' = <<>>
    /\ pc' = ret

\* signal.send(sender, instance): push the frame that walks the live receivers
Send(sig, sender, instance, ret) ==
    /\ frames' = <<[todo |-> LiveReceivers(sig, sender), sender |-> sender,
                    instance |-> instance, ret |-> ret, caller |-> cur]>>
    /\ pc' = "in_send"

InSend == pc = "in_send" /\ frames # <<>>

\* send calls the next receiver; the caller is suspended until it returns
CallReceiver ==
    /\ InSend /\ rpc = "none"
    /\ frames[1].todo # <<>>
    /\ rpc' = Head(frames[1].todo).fn
    /\ cur' = ReceiverThread(frames[1].caller)
    /\ UNCHANGED <<pc, isMain, now, out, my_signal, post_save, nsignals, receivers, frames,
                   dbVars, rectVars>>

\* the running receiver returns to send, which moves on to the next one
Return ==
    /\ rpc' = "none"
    /\ cur' = frames[1].caller
    /\ frames' = <<[frames[1] EXCEPT !.todo = Tail(@)]>>

\* every receiver has returned: send returns to its caller
SendReturn ==
    /\ InSend /\ rpc = "none"
    /\ frames[1].todo = <<>>
    /\ pc' = frames[1].ret
    /\ frames' = <<>>
    /\ UNCHANGED <<isMain, cur, now, out, my_signal, post_save, nsignals, receivers, rpc,
                   dbVars, rectVars>>

---------------------------------------------------------------------------
(* Task 1 *)

T1_CreateSignal ==
    /\ pc = "t1_signal"
    /\ my_signal' = NewSignal(nsignals)
    /\ receivers' = Registry(NewSignal(nsignals))
    /\ nsignals' = nsignals + 1
    /\ pc' = "t1_connect_slow"
    /\ UNCHANGED <<isMain, cur, now, out, post_save, frames, rpc,
                   dbVars, rectVars>>

T1_ConnectSlow ==
    /\ pc = "t1_connect_slow"
    /\ receivers' = Connect(my_signal, "slow_receiver", AnySender)
    /\ pc' = "t1_connect_fast"
    /\ UNCHANGED <<isMain, cur, now, out, my_signal, post_save, nsignals, frames, rpc,
                   dbVars, rectVars>>

T1_ConnectFast ==
    /\ pc = "t1_connect_fast"
    /\ receivers' = Connect(my_signal, "fast_receiver", AnySender)
    /\ pc' = "t1_print_sending"
    /\ UNCHANGED <<isMain, cur, now, out, my_signal, post_save, nsignals, frames, rpc,
                   dbVars, rectVars>>

T1_PrintSending ==
    /\ pc = "t1_print_sending"
    /\ print(Line("Sending signal..."))
    /\ pc' = "t1_send"
    /\ UNCHANGED <<isMain, cur, now, my_signal, post_save, nsignals, receivers, frames, rpc,
                   dbVars, rectVars>>

T1_Send ==
    /\ pc = "t1_send"
    /\ Send(my_signal, AnySender, NoInstance, "t1_print_completed")
    /\ UNCHANGED <<isMain, cur, now, out, my_signal, post_save, nsignals, receivers, rpc,
                   dbVars, rectVars>>

T1_PrintCompleted ==
    /\ pc = "t1_print_completed"
    /\ print(Line("Signal send completed"))
    /\ pc' = "t2_signal"
    /\ UNCHANGED <<isMain, cur, now, my_signal, post_save, nsignals, receivers, frames, rpc,
                   dbVars, rectVars>>

slow_receiver_started ==
    /\ InSend /\ rpc = "slow_receiver"
    /\ print(Line("Slow receiver started"))
    /\ rpc' = "slow_receiver_sleep"
    /\ UNCHANGED <<pc, isMain, cur, now, my_signal, post_save, nsignals, receivers, frames,
                   dbVars, rectVars>>

slow_receiver_sleep ==
    /\ InSend /\ rpc = "slow_receiver_sleep"
    /\ now' = now + SlowSleep
    /\ rpc' = "slow_receiver_finish"
    /\ UNCHANGED <<pc, isMain, cur, out, my_signal, post_save, nsignals, receivers, frames,
                   dbVars, rectVars>>

slow_receiver_finished ==
    /\ InSend /\ rpc = "slow_receiver_finish"
    /\ print(Line("Slow receiver finished"))
    /\ Return
    /\ UNCHANGED <<pc, isMain, now, my_signal, post_save, nsignals, receivers,
                   dbVars, rectVars>>

fast_receiver ==
    /\ InSend /\ rpc = "fast_receiver"
    /\ print(Line("Fast receiver started and finished"))
    /\ Return
    /\ UNCHANGED <<pc, isMain, now, my_signal, post_save, nsignals, receivers,
                   dbVars, rectVars>>

---------------------------------------------------------------------------
(* Task 2 *)

get_ident == cur

T2_CreateSignal ==
    /\ pc = "t2_signal"
    /\ my_signal' = NewSignal(nsignals)
    /\ receivers' = Registry(NewSignal(nsignals))
    /\ nsignals' = nsignals + 1
    /\ pc' = "t2_connect_1"
    /\ UNCHANGED <<isMain, cur, now, out, post_save, frames, rpc, dbVars, rectVars>>

T2_Connect1 ==
    /\ pc = "t2_connect_1"
    /\ receivers' = Connect(my_signal, "receiver_1", AnySender)
    /\ pc' = "t2_connect_2"
    /\ UNCHANGED <<isMain, cur, now, out, my_signal, post_save, nsignals, frames, rpc,
                   dbVars, rectVars>>

T2_Connect2 ==
    /\ pc = "t2_connect_2"
    /\ receivers' = Connect(my_signal, "receiver_2", AnySender)
    /\ pc' = "t2_if_main"
    /\ UNCHANGED <<isMain, cur, now, out, my_signal, post_save, nsignals, frames, rpc,
                   dbVars, rectVars>>

\* if __name__ == "__main__": main()
T2_IfMain ==
    /\ pc = "t2_if_main"
    /\ pc' = IF isMain THEN "main_print_caller" ELSE "t3_import"
    /\ UNCHANGED <<isMain, cur, now, out, my_signal, post_save, nsignals, receivers,
                   frames, rpc, dbVars, rectVars>>

main_print_caller ==
    /\ pc = "main_print_caller"
    /\ print(Event("Caller - Thread ID", "", get_ident, {}))
    /\ pc' = "main_print_sending"
    /\ UNCHANGED <<isMain, cur, now, my_signal, post_save, nsignals, receivers, frames,
                   rpc, dbVars, rectVars>>

main_print_sending ==
    /\ pc = "main_print_sending"
    /\ print(Line("Sending signal..."))
    /\ pc' = "main_send"
    /\ UNCHANGED <<isMain, cur, now, my_signal, post_save, nsignals, receivers, frames,
                   rpc, dbVars, rectVars>>

main_send ==
    /\ pc = "main_send"
    /\ Send(my_signal, AnySender, NoInstance, "main_print_completed")
    /\ UNCHANGED <<isMain, cur, now, out, my_signal, post_save, nsignals, receivers, rpc,
                   dbVars, rectVars>>

main_print_completed ==
    /\ pc = "main_print_completed"
    /\ print(Line("Signal send completed"))
    /\ pc' = "t3_import"
    /\ UNCHANGED <<isMain, cur, now, my_signal, post_save, nsignals, receivers, frames,
                   rpc, dbVars, rectVars>>

receiver_1_started ==
    /\ InSend /\ rpc = "receiver_1"
    /\ print(Event("Receiver 1 - Thread ID", "", get_ident, {}))
    /\ rpc' = "receiver_1_sleep"
    /\ UNCHANGED <<pc, isMain, cur, now, my_signal, post_save, nsignals, receivers, frames,
                   dbVars, rectVars>>

receiver_1_sleep ==
    /\ InSend /\ rpc = "receiver_1_sleep"
    /\ now' = now + WorkSleep
    /\ rpc' = "receiver_1_finish"
    /\ UNCHANGED <<pc, isMain, cur, out, my_signal, post_save, nsignals, receivers, frames,
                   dbVars, rectVars>>

receiver_1_finished ==
    /\ InSend /\ rpc = "receiver_1_finish"
    /\ print(Line("Receiver 1 finished"))
    /\ Return
    /\ UNCHANGED <<pc, isMain, now, my_signal, post_save, nsignals, receivers,
                   dbVars, rectVars>>

receiver_2_started ==
    /\ InSend /\ rpc = "receiver_2"
    /\ print(Event("Receiver 2 - Thread ID", "", get_ident, {}))
    /\ rpc' = "receiver_2_finish"
    /\ UNCHANGED <<pc, isMain, cur, now, my_signal, post_save, nsignals, receivers, frames,
                   dbVars, rectVars>>

receiver_2_finished ==
    /\ InSend /\ rpc = "receiver_2_finish"
    /\ print(Line("Receiver 2 finished"))
    /\ Return
    /\ UNCHANGED <<pc, isMain, now, my_signal, post_save, nsignals, receivers,
                   dbVars, rectVars>>

---------------------------------------------------------------------------
(* Task 3: storage, transaction.atomic, BankAccount *)

Row(name, balance) == [name |-> name, balance |-> balance]

\* every table of at most MaxRows BankAccount rows, keyed by primary key
Tables == UNION {[S -> [name : Names, balance : Balances]] : S \in SUBSET PKs}

\* the table a query sees: the open transaction's, or the committed one
View == IF inAtomic THEN working ELSE committed

Matching(name) == {k \in DOMAIN View : View[k].name = name}

\* BankAccount.objects.get(name=...): the error it raises, "none" for one row
GetError(name) ==
    IF Matching(name) = {} THEN "DoesNotExist"
    ELSE IF Cardinality(Matching(name)) > 1 THEN "MultipleObjectsReturned"
    ELSE "none"

Get(name) ==
    LET k == CHOOSE k \in Matching(name) : TRUE
    IN  [pk |-> k, name |-> View[k].name, balance |-> View[k].balance]

Write(table, inst) ==
    [k \in DOMAIN table \cup {inst.pk} |->
        IF k = inst.pk THEN Row(inst.name, inst.balance) ELSE table[k]]

\* instance.save(): the row as the open transaction sees it ...
SavedWorking(inst) == Write(working, inst)

\* faulty variant: every save is committed at once, block or no block
SavedCommittedAutocommit(inst) == Write(committed, inst)

\* ... and as committed storage holds it: untouched while a block is open
SavedCommitted(inst) == IF inAtomic THEN committed ELSE Write(committed, inst)

Debit(balance) == balance - Amount

Credit(balance) == balance + Amount

\* faulty variant: the block commits however it is left
AtomicExitKeepsWrites(e) == working

\* transaction.atomic().__exit__: commit on success, roll back on an exception
AtomicExitTable(e) == IF e = "none" THEN working ELSE committed

\* faulty variant: the except clause matches no exception
CatchesNothing(e) == FALSE

\* except ValueError:
Catches(e) == e = "ValueError"

\* from django.db import models, transaction; ...signals import post_save
T3_Import ==
    /\ pc = "t3_import"
    /\ post_save' = NewSignal(nsignals)
    /\ receivers' = Registry(NewSignal(nsignals))
    /\ nsignals' = nsignals + 1
    /\ pc' = "t3_connect_log"
    /\ UNCHANGED <<isMain, cur, now, out, my_signal, frames, rpc, dbVars, rectVars>>

\* @receiver(post_save, sender=BankAccount)
T3_ConnectLog ==
    /\ pc = "t3_connect_log"
    /\ receivers' = Connect(post_save, "log_transaction", BankAccount)
    /\ pc' = "t3_atomic_enter"
    /\ UNCHANGED <<isMain, cur, now, out, my_signal, post_save, nsignals, frames, rpc,
                   dbVars, rectVars>>

log_transaction ==
    /\ InSend /\ rpc = "log_transaction"
    /\ print(Event("Log", frames[1].instance.name, frames[1].instance.balance, {}))
    /\ Return
    /\ UNCHANGED <<pc, isMain, now, my_signal, post_save, nsignals, receivers,
                   dbVars, rectVars>>

\* try: with transaction.atomic():
T3_AtomicEnter ==
    /\ pc = "t3_atomic_enter"
    /\ inAtomic' = TRUE
    /\ working' = committed
    /\ atEntry' = committed
    /\ pc' = "t3_get_alice"
    /\ UNCHANGED <<isMain, cur, now, out, my_signal, post_save, nsignals, receivers,
                   frames, rpc, committed, alice, bob, exc, rectVars>>

T3_GetAlice ==
    /\ pc = "t3_get_alice"
    /\ IF GetError("Alice") = "none"
         THEN alice' = Get("Alice") /\ pc' = "t3_get_bob" /\ UNCHANGED exc
         ELSE exc' = GetError("Alice") /\ pc' = "t3_atomic_exit" /\ UNCHANGED alice
    /\ UNCHANGED <<isMain, cur, now, out, my_signal, post_save, nsignals, receivers,
                   frames, rpc, committed, working, inAtomic, atEntry, bob, rectVars>>

T3_GetBob ==
    /\ pc = "t3_get_bob"
    /\ IF GetError("Bob") = "none"
         THEN bob' = Get("Bob") /\ pc' = "t3_alice_debit" /\ UNCHANGED exc
         ELSE exc' = GetError("Bob") /\ pc' = "t3_atomic_exit" /\ UNCHANGED bob
    /\ UNCHANGED <<isMain, cur, now, out, my_signal, post_save, nsignals, receivers,
                   frames, rpc, committed, working, inAtomic, atEntry, alice, rectVars>>

\* alice.balance -= 50
T3_AliceDebit ==
    /\ pc = "t3_alice_debit"
    /\ alice' = [alice EXCEPT !.balance = Debit(@)]
    /\ pc' = "t3_alice_save"
    /\ UNCHANGED <<isMain, cur, now, out, my_signal, post_save, nsignals, receivers,
                   frames, rpc, committed, working, inAtomic, atEntry, bob, exc, rectVars>>

\* alice.save(): write the row, then send post_save(sender=BankAccount, instance=alice)
T3_AliceSave ==
    /\ pc = "t3_alice_save"
    /\ working' = SavedWorking(alice)
    /\ committed' = SavedCommitted(alice)
    /\ Send(post_save, BankAccount, alice, "t3_bob_credit")
    /\ UNCHANGED <<isMain, cur, now, out, my_signal, post_save, nsignals, receivers,
                   rpc, inAtomic, atEntry, alice, bob, exc, rectVars>>

\* bob.balance += 50
T3_BobCredit ==
    /\ pc = "t3_bob_credit"
    /\ bob' = [bob EXCEPT !.balance = Credit(@)]
    /\ pc' = "t3_bob_save"
    /\ UNCHANGED <<isMain, cur, now, out, my_signal, post_save, nsignals, receivers,
                   frames, rpc, committed, working, inAtomic, atEntry, alice, exc, rectVars>>

T3_BobSave ==
    /\ pc = "t3_bob_save"
    /\ working' = SavedWorking(bob)
    /\ committed' = SavedCommitted(bob)
    /\ Send(post_save, BankAccount, bob, "t3_raise")
    /\ UNCHANGED <<isMain, cur, now, out, my_signal, post_save, nsignals, receivers,
                   rpc, inAtomic, atEntry, alice, bob, exc, rectVars>>

\* raise ValueError("Oops! Error!")
T3_Raise ==
    /\ pc = "t3_raise"
    /\ exc' = "ValueError"
    /\ pc' = "t3_atomic_exit"
    /\ UNCHANGED <<isMain, cur, now, out, my_signal, post_save, nsignals, receivers,
                   frames, rpc, committed, working, inAtomic, atEntry, alice, bob, rectVars>>

\* leaving the with block: the transaction ends before any except clause runs
T3_AtomicExit ==
    /\ pc = "t3_atomic_exit"
    /\ committed' = AtomicExitTable(exc)
    /\ working' = AtomicExitTable(exc)
    /\ inAtomic' = FALSE
    /\ pc' = IF exc = "none" THEN "t3_refetch_alice" ELSE "t3_except"
    /\ UNCHANGED <<isMain, cur, now, out, my_signal, post_save, nsignals, receivers,
                   frames, rpc, atEntry, alice, bob, exc, rectVars>>

\* except ValueError: print(" Transaction failed. Rolling back!")
T3_Except ==
    /\ pc = "t3_except"
    /\ Catches(exc)
    /\ print(Line(" Transaction failed. Rolling back!"))
    /\ exc' = "none"
    /\ pc' = "t3_refetch_alice"
    /\ UNCHANGED <<isMain, cur, now, my_signal, post_save, nsignals, receivers,
                   frames, rpc, committed, working, inAtomic, atEntry, alice, bob, rectVars>>

\* no except clause matches: the exception leaves the module and the run ends
T3_Uncaught ==
    /\ pc = "t3_except"
    /\ ~Catches(exc)
    /\ pc' = "crashed"
    /\ UNCHANGED <<isMain, cur, now, out, my_signal, post_save, nsignals, receivers,
                   frames, rpc, dbVars, rectVars>>

\* alice = BankAccount.objects.get(name="Alice"), outside any transaction
T3_RefetchAlice ==
    /\ pc = "t3_refetch_alice"
    /\ IF GetError("Alice") = "none"
         THEN alice' = Get("Alice") /\ pc' = "t3_refetch_bob" /\ UNCHANGED exc
         ELSE exc' = GetError("Alice") /\ pc' = "crashed" /\ UNCHANGED alice
    /\ UNCHANGED <<isMain, cur, now, out, my_signal, post_save, nsignals, receivers,
                   frames, rpc, committed, working, inAtomic, atEntry, bob, rectVars>>

T3_RefetchBob ==
    /\ pc = "t3_refetch_bob"
    /\ IF GetError("Bob") = "none"
         THEN bob' = Get("Bob") /\ pc' = "t3_print_balances" /\ UNCHANGED exc
         ELSE exc' = GetError("Bob") /\ pc' = "crashed" /\ UNCHANGED bob
    /\ UNCHANGED <<isMain, cur, now, out, my_signal, post_save, nsignals, receivers,
                   frames, rpc, committed, working, inAtomic, atEntry, alice, rectVars>>

\* print(f"Alice: ${alice.balance}, Bob: ${bob.balance}")
T3_PrintBalances ==
    /\ pc = "t3_print_balances"
    /\ print(Event("Balances", "", 0, {<<"Alice", alice.balance>>, <<"Bob", bob.balance>>}))
    /\ pc' = "rect_create"
    /\ UNCHANGED <<isMain, cur, now, my_signal, post_save, nsignals, receivers,
                   frames, rpc, dbVars, rectVars>>

---------------------------------------------------------------------------
(* Rectangle *)

NoRectangle == [length |-> 0, width |-> 0]

\* a dict with one key
Dict(key, value) == {<<key, value>>}

\* faulty variant: the two yields swapped
RectangleIterWidthFirst(self) ==
    <<Dict("width", self.width), Dict("length", self.length)>>

\* Rectangle.__iter__: the items its generator yields, in the order of its yields
RectangleIter(self) ==
    <<Dict("length", self.length), Dict("width", self.width)>>

\* rect = Rectangle(10, 20), for any two dimensions
Rect_Create ==
    /\ pc = "rect_create"
    /\ \E length \in Dims, width \in Dims :
          rect' = [length |-> length, width |-> width]
    /\ pc' = "rect_iter"
    /\ UNCHANGED <<isMain, cur, now, out, my_signal, post_save, nsignals, receivers,
                   frames, rpc, dbVars, gen, dimension>>

\* for dimension in rect: iter(rect) makes a generator that has not started
Rect_Iter ==
    /\ pc = "rect_iter"
    /\ gen' = 0
    /\ pc' = "rect_next"
    /\ UNCHANGED <<isMain, cur, now, out, my_signal, post_save, nsignals, receivers,
                   frames, rpc, dbVars, rect, dimension>>

\* next(generator): run to the next yield, or off the end (StopIteration)
Rect_Next ==
    /\ pc = "rect_next"
    /\ IF gen < Len(RectangleIter(rect))
         THEN /\ dimension' = RectangleIter(rect)[gen + 1]
              /\ gen' = gen + 1
              /\ pc' = "rect_print"
         ELSE /\ pc' = "done"
              /\ UNCHANGED <<gen, dimension>>
    /\ UNCHANGED <<isMain, cur, now, out, my_signal, post_save, nsignals, receivers,
                   frames, rpc, dbVars, rect>>

\* print(dimension)
Rect_Print ==
    /\ pc = "rect_print"
    /\ print(Event("dimension", "", 0, dimension))
    /\ pc' = "rect_next"
    /\ UNCHANGED <<isMain, cur, now, my_signal, post_save, nsignals, receivers,
                   frames, rpc, dbVars, rectVars>>

---------------------------------------------------------------------------
(* The module, run top to bottom *)

Init ==
    /\ pc = "t1_signal"
    /\ isMain \in BOOLEAN
    /\ cur \in Threads
    /\ now = 0
    /\ out = <<>>
    /\ my_signal = 0
    /\ post_save = 0
    /\ nsignals = 0
    /\ receivers = <<>>
    /\ frames = <<>>
    /\ rpc = "none"
    /\ committed \in Tables
    /\ working = committed
    /\ inAtomic = FALSE
    /\ atEntry = committed
    /\ alice = NoInstance
    /\ bob = NoInstance
    /\ exc = "none"
    /\ rect = NoRectangle
    /\ gen = 0
    /\ dimension = {}

Next ==
    \/ T1_CreateSignal \/ T1_ConnectSlow \/ T1_ConnectFast
    \/ T1_PrintSending \/ T1_Send \/ T1_PrintCompleted
    \/ CallReceiver \/ SendReturn
    \/ slow_receiver_started \/ slow_receiver_sleep \/ slow_receiver_finished
    \/ fast_receiver
    \/ T2_CreateSignal \/ T2_Connect1 \/ T2_Connect2 \/ T2_IfMain
    \/ main_print_caller \/ main_print_sending \/ main_send \/ main_print_completed
    \/ receiver_1_started \/ receiver_1_sleep \/ receiver_1_finished
    \/ receiver_2_started \/ receiver_2_finished
    \/ T3_Import \/ T3_ConnectLog \/ log_transaction
    \/ T3_AtomicEnter \/ T3_GetAlice \/ T3_GetBob
    \/ T3_AliceDebit \/ T3_AliceSave \/ T3_BobCredit \/ T3_BobSave
    \/ T3_Raise \/ T3_AtomicExit \/ T3_Except \/ T3_Uncaught
    \/ T3_RefetchAlice \/ T3_RefetchBob \/ T3_PrintBalances
    \/ Rect_Create \/ Rect_Iter \/ Rect_Next \/ Rect_Print

Spec == Init /\ [][Next]_vars

\* the interpreter always executes the next statement
FairSpec == Spec /\ WF_vars(Next)

---------------------------------------------------------------------------
(* Reading the console and the storage *)

Texts == [i \in 1..Len(out) |-> out[i].text]

Count(text) == Cardinality({i \in 1..Len(out) : out[i].text = text})

Logs(name) == {i \in 1..Len(out) : out[i].text = "Log" /\ out[i].name = name}

FailedLines == {i \in 1..Len(out) : out[i].text = " Transaction failed. Rolling back!"}

BalanceLines == {i \in 1..Len(out) : out[i].text = "Balances"}

StoredBalance(table, name) ==
    table[CHOOSE k \in DOMAIN table : table[k].name = name].balance

\* the ValueError of line 142 is in flight, or its except clause has run
ValueErrorRaised == exc = "ValueError" \/ FailedLines # {}

AfterRefetch ==
    {"t3_print_balances", "rect_create", "rect_iter", "rect_next", "rect_print", "done"}

AfterTask1 == nsignals >= 2

Task1Expected ==
    <<"Sending signal...", "Slow receiver started", "Slow receiver finished",
      "Fast receiver started and finished", "Signal send completed">>

Task2Expected ==
    <<"Caller - Thread ID", "Sending signal...", "Receiver 1 - Thread ID",
      "Receiver 1 finished", "Receiver 2 - Thread ID", "Receiver 2 finished",
      "Signal send completed">>

IsPrefix(s, t) == Len(s) <= Len(t) /\ s = SubSeq(t, 1, Len(s))

---------------------------------------------------------------------------
(* Claims *)

\* C1: the Task-1 send runs slow_receiver and then fast_receiver to completion
\* before it returns: the console shows the five expected lines in order,
\* fast_receiver starts only after slow_receiver has slept 3 seconds and
\* finished, and the send has returned only once all four lines are out.
C1_SendRunsReceiversInOrder ==
    /\ IsPrefix(SubSeq(Texts, 1, IF Len(out) < 5 THEN Len(out) ELSE 5), Task1Expected)
    /\ rpc = "fast_receiver" =>
          /\ Count("Slow receiver finished") = 1
          /\ now >= SlowSleep
    /\ pc = "t1_print_completed" => Texts = SubSeq(Task1Expected, 1, 4)
    /\ AfterTask1 => SubSeq(Texts, 1, 5) = Task1Expected

C1_Witness ==
    /\ pc = "t1_print_completed"
    /\ now = SlowSleep
    /\ Texts[4] = "Fast receiver started and finished"

\* C2: in Task 2 every receiver runs in the thread that called send: the
\* identifiers printed by receiver_1 and receiver_2 equal the one main()
\* printed, and no statement of a receiver is executed by another thread.
C2_ReceiversRunInCallerThread ==
    /\ \A i, j \in 1..Len(out) :
          /\ out[i].text = "Caller - Thread ID"
          /\ out[j].text \in {"Receiver 1 - Thread ID", "Receiver 2 - Thread ID"}
          => out[j].val = out[i].val
    /\ \A i, j \in 1..Len(out) :
          /\ out[i].text = "Caller - Thread ID"
          /\ out[j].text \in {"Receiver 1 - Thread ID", "Receiver 1 finished",
                               "Receiver 2 - Thread ID", "Receiver 2 finished"}
          => out[j].by = out[i].by
    /\ rpc \in {"receiver_1", "receiver_1_sleep", "receiver_1_finish",
                 "receiver_2", "receiver_2_finish"} => cur = frames[1].caller

C2_Witness ==
    /\ rpc = "receiver_2_finish"
    /\ cur = frames[1].caller
    /\ \E i, j \in 1..Len(out) :
          /\ out[i].text = "Caller - Thread ID"
          /\ out[j].text = "Receiver 2 - Thread ID"
          /\ out[j].val = out[i].val

\* C3: once the ValueError has been raised in the atomic block and the block
\* has been left, storage holds what it held when the block was entered, and
\* the balances of Alice and Bob read back afterwards are the ones stored
\* before the block: neither the debit nor the credit of 50 persists.
C3_RollbackRestoresBalances ==
    /\ (ValueErrorRaised /\ ~inAtomic) => committed = atEntry
    /\ (ValueErrorRaised /\ pc \in AfterRefetch) =>
          /\ alice.balance = StoredBalance(atEntry, "Alice")
          /\ bob.balance = StoredBalance(atEntry, "Bob")

C3_Witness ==
    /\ pc = "t3_print_balances"
    /\ FailedLines # {}
    /\ alice.balance = DefaultBalance
    /\ bob.balance = 0
    /\ StoredBalance(atEntry, "Alice") = DefaultBalance

\* C4: the rollback does not undo console output: after the block has rolled
\* back, the log line of Alice's save and the log line of Bob's save are each
\* in the output exactly once, while storage is as it was before the block.
C4_LogsSurviveRollback ==
    (ValueErrorRaised /\ ~inAtomic) =>
        /\ Cardinality(Logs("Alice")) = 1
        /\ Cardinality(Logs("Bob")) = 1
        /\ committed = atEntry

C4_Witness ==
    /\ pc = "done"
    /\ Logs("Alice") # {} /\ Logs("Bob") # {}
    /\ committed = atEntry

\* Alice's row in committed storage is 50 below its value at block entry
C5_Debited ==
    \E k \in DOMAIN atEntry \cap DOMAIN committed :
        /\ atEntry[k].name = "Alice"
        /\ committed[k].balance = Debit(atEntry[k].balance)

\* Bob's row in committed storage is 50 above its value at block entry
C5_Credited ==
    \E k \in DOMAIN atEntry \cap DOMAIN committed :
        /\ atEntry[k].name = "Bob"
        /\ committed[k].balance = Credit(atEntry[k].balance)

\* C5: committed storage never holds half of the transfer: Alice's row is
\* debited by 50 in committed storage exactly when Bob's row is credited by 50.
C5_AllOrNothing == C5_Debited <=> C5_Credited

C5_Witness ==
    /\ pc = "t3_bob_credit"
    /\ inAtomic
    /\ StoredBalance(working, "Alice") = StoredBalance(atEntry, "Alice") - Amount
    /\ StoredBalance(working, "Bob") = StoredBalance(atEntry, "Bob")
    /\ committed = atEntry

\* the items the for loop has printed so far
Dimensions ==
    LET lines == SelectSeq(out, LAMBDA e : e.text = "dimension")
    IN  [i \in 1..Len(lines) |-> lines[i].item]

\* C6: iterating a Rectangle yields exactly two items and stops: the mapping
\* {'length': length}, then the mapping {'width': width}.
C6_RectangleYieldsLengthThenWidth ==
    /\ IsPrefix(Dimensions, <<{<<"length", rect.length>>}, {<<"width", rect.width>>}>>)
    /\ pc = "rect_print" => Len(Dimensions) + 1 = gen
    /\ pc = "rect_print" /\ gen = 1 => dimension = {<<"length", rect.length>>}
    /\ pc = "rect_print" /\ gen = 2 => dimension = {<<"width", rect.width>>}
    /\ pc = "done" => Len(Dimensions) = 2

C6_Witness ==
    /\ pc = "done"
    /\ rect = [length |-> 10, width |-> 20]
    /\ Dimensions = <<{<<"length", 10>>}, {<<"width", 20>>}>>

\* C8: log_transaction runs inside each save(): Alice's log, showing her
\* balance less 50, is out before Bob's balance is touched; Bob's log, showing
\* his balance plus 50, is out before the ValueError is raised; both logs
\* precede the 'Transaction failed' line and the final balances line.
C8_LogsInsideSave ==
    /\ pc = "t3_bob_credit" =>
          /\ out[Len(out)].text = "Log" /\ out[Len(out)].name = "Alice"
          /\ out[Len(out)].val = StoredBalance(atEntry, "Alice") - Amount
          /\ bob.balance = StoredBalance(atEntry, "Bob")
    /\ pc = "t3_raise" =>
          /\ out[Len(out)].text = "Log" /\ out[Len(out)].name = "Bob"
          /\ out[Len(out)].val = StoredBalance(atEntry, "Bob") + Amount
          /\ exc = "none"
    /\ \A b \in Logs("Bob") : \E a \in Logs("Alice") : a < b
    /\ \A f \in FailedLines : \E b \in Logs("Bob") : b < f
    /\ \A p \in BalanceLines : \E f \in FailedLines : f < p

C8_Witness ==
    /\ pc = "t3_raise"
    /\ out[Len(out)].text = "Log" /\ out[Len(out)].name = "Bob"
    /\ out[Len(out) - 1].text = "Log" /\ out[Len(out) - 1].name = "Alice"

\* the state part of C9
C9_Safe ==
    /\ exc = "ValueError" => pc \in {"t3_atomic_exit", "t3_except"}
    /\ (exc = "ValueError" /\ pc = "t3_except") => (~inAtomic /\ committed = atEntry)
    /\ Cardinality(FailedLines) <= 1
    /\ (ValueErrorRaised /\ exc = "none") => Cardinality(FailedLines) = 1
    /\ ValueErrorRaised => pc # "crashed"

\* C9: the ValueError raised in the atomic block is caught by the except
\* clause, after the rollback: it never ends the run, 'Transaction failed.
\* Rolling back!' is printed exactly once, and the run goes on to re-fetch
\* both accounts and print their balances.
C9_ValueErrorIsCaught ==
    /\ []C9_Safe
    /\ (exc = "ValueError") ~> (BalanceLines # {} /\ Cardinality(FailedLines) = 1)

C9_Witness ==
    /\ pc = "t3_refetch_alice"
    /\ exc = "none"
    /\ Cardinality(FailedLines) = 1
    /\ committed = atEntry

\* the functions a send has still to call
C10_Fns(todo) == [i \in 1..Len(todo) |-> todo[i].fn]

\* C10: a send invokes only the receivers connected to the Signal object it
\* is called on: the Task-1 send runs slow_receiver and then fast_receiver and
\* nothing else, the send in main() runs receiver_1 then receiver_2 and
\* nothing else, because my_signal was rebound to a new Signal() in between.
C10_SendInvokesOwnReceivers ==
    /\ (frames # <<>> /\ frames[1].ret = "t1_print_completed") =>
          /\ C10_Fns(frames[1].todo) \in
                {<<"slow_receiver", "fast_receiver">>, <<"fast_receiver">>, <<>>}
          /\ rpc \in {"none", "slow_receiver", "slow_receiver_sleep",
                       "slow_receiver_finish", "fast_receiver"}
    /\ (frames # <<>> /\ frames[1].ret = "main_print_completed") =>
          /\ C10_Fns(frames[1].todo) \in
                {<<"receiver_1", "receiver_2">>, <<"receiver_2">>, <<>>}
          /\ rpc \in {"none", "receiver_1", "receiver_1_sleep", "receiver_1_finish",
                       "receiver_2", "receiver_2_finish"}
    /\ pc = "t1_print_completed" => Texts = SubSeq(Task1Expected, 1, 4)
    /\ pc = "main_print_completed" =>
          Texts = Task1Expected \o SubSeq(Task2Expected, 1, 6)
    /\ Count("Slow receiver started") <= 1
    /\ Count("Fast receiver started and finished") <= 1

C10_Witness ==
    /\ pc = "main_print_completed"
    /\ my_signal = 2
    /\ Len(out) = 11
    /\ Count("Slow receiver started") = 1
    /\ Count("Receiver 1 finished") = 1

====
